---- MODULE Spec2Model ----
(***************************************************************************)
(* A model of VisualizationFrame (src/src/visualization-frame.ts): the     *)
(* bridge between a host page and an embedded third-party visualization.   *)
(* The state is one VisualizationFrame instance (its container, its iframe *)
(* handle and its callback registry), the document it lives in, and a      *)
(* record of what the last call did: the callbacks it invoked, the         *)
(* envelopes it posted and the error it threw.                             *)
(*                                                                         *)
(* EventHandler (./event-handler) and ViewerEvent (./viewer-event) are     *)
(* imported by the file and are not part of it; the message listener is    *)
(* modelled from section 4.1 of the specification.                         *)
(***************************************************************************)
EXTENDS Integers, Sequences, FiniteSets, TLC

VARIABLES
    phase,          \* "Constructing" | "Active" | "Failed" (the constructor threw)
    pc,             \* the statement of the constructor that runs next
    container,      \* this.container
    nativeElement,  \* this.nativeElement
    mounted,        \* the iframes appended to the container, in order
    receivers,      \* the number of message listeners this instance installed on window
    attached,       \* TRUE iff the container is in a live document
    callbacks,      \* this.callbacks: ViewerEvent key -> sequence of callbacks
    regCount,       \* history: the number of registration calls made
    regOrder,       \* history: per kind, the callbacks the host registered, in call order
    lastCall,       \* the last call made, with its inputs
    invoked,        \* the callback invocations of the last call, in order
    posted,         \* the envelopes the last call posted to contentWindow
    raised,         \* the error the last call threw, or NoError
    outbox,         \* history: the envelopes contentWindow received, in order
    sendLog,        \* history: the send calls made, each with the state of the channel
    second          \* a second instance on the same window: its registry and last call

vars == <<phase, pc, container, nativeElement, mounted, receivers, attached,
          callbacks, regCount, regOrder, lastCall, invoked, posted, raised,
          outbox, sendLog, second>>

----------------------------------------------------------------------------
(* Bounds *)

\* The host registers callbacks while fewer than MaxRegs registrations were made.
MaxRegs == 2

\* The callbacks of the host make at most MaxReentrant registrations beyond those.
MaxReentrant == 1

\* The number of send calls the history of sends records.
MaxSends == 3

----------------------------------------------------------------------------
(* The event kinds and the methods of the class *)

ViewerEvent ==
    {"TriggerConfigurationUpdate", "UpdateRequirement", "UpdateRequirements",
     "UpdateImageValue", "UpdateTextValue", "UpdateLinkedConfigurationCardinality",
     "DragStarted", "RemoveLinkedConfiguration"}

\* The public registration method named after kind K.
OnMethod(K) ==
    CASE K = "TriggerConfigurationUpdate" -> "onTriggerConfigurationUpdate"
      [] K = "UpdateRequirement" -> "onUpdateRequirement"
      [] K = "UpdateRequirements" -> "onUpdateRequirements"
      [] K = "UpdateImageValue" -> "onUpdateImageValue"
      [] K = "UpdateTextValue" -> "onUpdateTextValue"
      [] K = "UpdateLinkedConfigurationCardinality" -> "onUpdateLinkedConfigurationCardinality"
      [] K = "DragStarted" -> "onDragStarted"
      [] K = "RemoveLinkedConfiguration" -> "onRemoveLinkedConfiguration"

\* The key each registration method passes to addCallback.
RegistrationKey(method) ==
    CASE method = "onTriggerConfigurationUpdate" -> "TriggerConfigurationUpdate"
      [] method = "onUpdateRequirement" -> "UpdateRequirement"
      [] method = "onUpdateRequirements" -> "UpdateRequirements"
      [] method = "onUpdateImageValue" -> "UpdateImageValue"
      [] method = "onUpdateTextValue" -> "UpdateTextValue"
      [] method = "onUpdateLinkedConfigurationCardinality" -> "UpdateLinkedConfigurationCardinality"
      [] method = "onDragStarted" -> "DragStarted"
      [] method = "onRemoveLinkedConfiguration" -> "RemoveLinkedConfiguration"

\* The protected dispatch method named after kind K.
DispatchMethod(K) ==
    CASE K = "TriggerConfigurationUpdate" -> "triggerConfigurationUpdate"
      [] K = "UpdateRequirement" -> "updateRequirement"
      [] K = "UpdateRequirements" -> "updateRequirements"
      [] K = "UpdateImageValue" -> "updateImageValue"
      [] K = "UpdateTextValue" -> "updateTextValue"
      [] K = "UpdateLinkedConfigurationCardinality" -> "updateLinkedConfigurationCardinality"
      [] K = "DragStarted" -> "dragStarted"
      [] K = "RemoveLinkedConfiguration" -> "removeLinkedConfiguration"

\* Faulty variant: dragStarted and removeLinkedConfiguration read each other's bucket.
DispatchKeySwapped(method) ==
    CASE method = "triggerConfigurationUpdate" -> "TriggerConfigurationUpdate"
      [] method = "updateRequirement" -> "UpdateRequirement"
      [] method = "updateRequirements" -> "UpdateRequirements"
      [] method = "updateImageValue" -> "UpdateImageValue"
      [] method = "updateTextValue" -> "UpdateTextValue"
      [] method = "updateLinkedConfigurationCardinality" -> "UpdateLinkedConfigurationCardinality"
      [] method = "dragStarted" -> "RemoveLinkedConfiguration"
      [] method = "removeLinkedConfiguration" -> "DragStarted"

\* The key each dispatch method passes to executeCallbacks.
DispatchKey(method) ==
    CASE method = "triggerConfigurationUpdate" -> "TriggerConfigurationUpdate"
      [] method = "updateRequirement" -> "UpdateRequirement"
      [] method = "updateRequirements" -> "UpdateRequirements"
      [] method = "updateImageValue" -> "UpdateImageValue"
      [] method = "updateTextValue" -> "UpdateTextValue"
      [] method = "updateLinkedConfigurationCardinality" -> "UpdateLinkedConfigurationCardinality"
      [] method = "dragStarted" -> "DragStarted"
      [] method = "removeLinkedConfiguration" -> "RemoveLinkedConfiguration"

----------------------------------------------------------------------------
(* Values *)

NoError == "none"
ContainerNotFound == "Container not found"
ContainerNotHTMLElement == "Container must be an HTMLElement"
NoContentWindow == "Native element does not have a content window"
CallbackError == "error thrown by a callback"

\* The host's callbacks. cThrow throws whenever it is invoked.
CallbackIds == {"c1", "c2", "cThrow"}
Raises(callback) == callback = "cThrow"

\* event.data.args of an inbound message; Undefined when the field is absent.
Undefined == "undefined"
InArgs == {"p1", "p2"}

\* The wire name of each kind (the strings are ViewerEvent's values).
WireName(K) == <<"in", K>>
KnownNames == {WireName(K) : K \in ViewerEvent}
UnknownNames == {<<"out", "elfsquad.configurationUpdated">>}

\* event.data of the inbound messages: well formed, without args, without name,
\* and with neither (an empty object, or a value that is no object at all).
EmptyData == [f \in {} |-> Undefined]
InboundData ==
    [name : KnownNames \cup UnknownNames, args : InArgs]
    \cup [name : UnknownNames \cup {WireName("DragStarted")}]
    \cup [args : {"p1"}]
    \cup {EmptyData}

\* The payloads the host sends: objects with own enumerable fields.
BackReference == "_configuratorContext"
Payloads ==
    {[id |-> "a"], [id |-> "b"],
     [id |-> "a", _configuratorContext |-> "ctx"],
     [_configuratorContext |-> "ctx"]}

\* The document: what document.querySelector returns for a selector.
Selectors == {"#missing", "#svg", "#showroom"}
QuerySelector(selector) ==
    CASE selector = "#missing" -> "null"
      [] selector = "#svg" -> "svgElement"
      [] selector = "#showroom" -> "divElement"
IsHTMLElement(element) == element = "divElement"

\* options.container: a selector string or an element handle.
ContainerOptions ==
    [type : {"string"}, value : Selectors] \cup [type : {"element"}, value : {"divElement"}]

----------------------------------------------------------------------------
(* The methods *)

\* Faulty variant: getContainer without the instanceof HTMLElement check.
getContainerAnyElement(option) ==
    IF option.type = "string"
    THEN LET element == QuerySelector(option.value) IN
         IF element = "null" THEN [error |-> ContainerNotFound, element |-> "null"]
         ELSE [error |-> NoError, element |-> element]
    ELSE [error |-> NoError, element |-> option.value]

\* getContainer: the container, or the error thrown.
getContainer(option) ==
    IF option.type = "string"
    THEN LET element == QuerySelector(option.value) IN
         IF element = "null" THEN [error |-> ContainerNotFound, element |-> "null"]
         ELSE IF ~IsHTMLElement(element)
              THEN [error |-> ContainerNotHTMLElement, element |-> "null"]
              ELSE [error |-> NoError, element |-> element]
    ELSE [error |-> NoError, element |-> option.value]

\* Faulty variant: addCallback that skips a callback the bucket already holds.
addCallbackDeduplicating(cbs, key, callback) ==
    LET withBucket == [k \in DOMAIN cbs \cup {key} |->
                          IF k \in DOMAIN cbs THEN cbs[k] ELSE <<>>]
    IN IF \E i \in DOMAIN withBucket[key] : withBucket[key][i] = callback
       THEN withBucket
       ELSE [withBucket EXCEPT ![key] = Append(@, callback)]

\* Faulty variant: addCallback that puts the callback at the front (unshift for push).
addCallbackAtFront(cbs, key, callback) ==
    LET withBucket == [k \in DOMAIN cbs \cup {key} |->
                          IF k \in DOMAIN cbs THEN cbs[k] ELSE <<>>]
    IN [withBucket EXCEPT ![key] = <<callback>> \o @]

\* Faulty variant: addCallback that starts a new bucket on every call.
addCallbackReplacing(cbs, key, callback) ==
    [k \in DOMAIN cbs \cup {key} |->
        IF k = key THEN <<callback>> ELSE cbs[k]]

\* addCallback: the registry after this.callbacks[key].push(callback).
addCallback(cbs, key, callback) ==
    LET withBucket == [k \in DOMAIN cbs \cup {key} |->
                          IF k \in DOMAIN cbs THEN cbs[k] ELSE <<>>]
    IN [withBucket EXCEPT ![key] = Append(@, callback)]

\* A callback that registers: cReg calls visualization.onDragStarted(c2) when it is
\* invoked, as long as fewer than MaxRegs + MaxReentrant registrations were made.
ReentrantCallback == "cReg"
ReentrantKind == "DragStarted"
ReentrantRegisters == "c2"

\* The registry and the number of registrations after the body of callback has run.
invoke(cbs, count, callback) ==
    IF callback = ReentrantCallback /\ count < MaxRegs + MaxReentrant
    THEN [cbs |-> addCallback(cbs, RegistrationKey(OnMethod(ReentrantKind)),
                              ReentrantRegisters),
          count |-> count + 1]
    ELSE [cbs |-> cbs, count |-> count]

\* A call that invokes nothing.
nothingInvoked(cbs, count) ==
    [invoked |-> <<>>, raised |-> NoError, cbs |-> cbs, count |-> count]

\* Faulty variant: a loop that reads the length of the bucket on every round.
RECURSIVE forEachLiveLength(_, _, _, _, _, _)
forEachLiveLength(cbs, count, key, data, i, len) ==
    IF i > Len(cbs[key]) THEN nothingInvoked(cbs, count)
    ELSE LET call == [cb |-> cbs[key][i], arg |-> data]
             after == invoke(cbs, count, cbs[key][i])
         IN IF Raises(cbs[key][i])
            THEN [invoked |-> <<call>>, raised |-> CallbackError,
                  cbs |-> after.cbs, count |-> after.count]
            ELSE LET rest == forEachLiveLength(after.cbs, after.count, key, data, i + 1, len) IN
                 [invoked |-> <<call>> \o rest.invoked, raised |-> rest.raised,
                  cbs |-> rest.cbs, count |-> rest.count]

\* Array.prototype.forEach on this.callbacks[key], from index i: the length len is
\* read once, before the first call; each callback is called with data and may
\* itself register callbacks; a throwing callback ends the loop and its error
\* propagates.
RECURSIVE forEach(_, _, _, _, _, _)
forEach(cbs, count, key, data, i, len) ==
    IF i > len THEN nothingInvoked(cbs, count)
    ELSE LET call == [cb |-> cbs[key][i], arg |-> data]
             after == invoke(cbs, count, cbs[key][i])
         IN IF Raises(cbs[key][i])
            THEN [invoked |-> <<call>>, raised |-> CallbackError,
                  cbs |-> after.cbs, count |-> after.count]
            ELSE LET rest == forEach(after.cbs, after.count, key, data, i + 1, len) IN
                 [invoked |-> <<call>> \o rest.invoked, raised |-> rest.raised,
                  cbs |-> rest.cbs, count |-> rest.count]

\* Faulty variant: executeCallbacks that calls the first callback of the bucket only.
executeCallbacksFirstOnly(cbs, count, key, data) ==
    IF key \notin DOMAIN cbs THEN nothingInvoked(cbs, count)
    ELSE forEach(cbs, count, key, data, 1, IF cbs[key] = <<>> THEN 0 ELSE 1)

\* Faulty variant: executeCallbacks that creates the bucket it does not find.
executeCallbacksCreatingBucket(cbs, count, key, data) ==
    IF key \notin DOMAIN cbs
    THEN nothingInvoked([k \in DOMAIN cbs \cup {key} |->
                            IF k \in DOMAIN cbs THEN cbs[k] ELSE <<>>], count)
    ELSE forEach(cbs, count, key, data, 1, Len(cbs[key]))

\* Faulty variant: executeCallbacks that catches what a callback throws and goes on.
executeCallbacksGuarded(cbs, count, key, data) ==
    IF key \notin DOMAIN cbs THEN nothingInvoked(cbs, count)
    ELSE [invoked |-> [i \in DOMAIN cbs[key] |-> [cb |-> cbs[key][i], arg |-> data]],
          raised |-> NoError, cbs |-> cbs, count |-> count]

\* executeCallbacks: the invocations made, the error that escaped, and the registry
\* the callbacks left.
executeCallbacks(cbs, count, key, data) ==
    IF key \notin DOMAIN cbs THEN nothingInvoked(cbs, count)
    ELSE forEach(cbs, count, key, data, 1, Len(cbs[key]))

\* Objects are held by reference: a heap maps each reference to the own fields of
\* its object. Object.assign(target, source) copies the own fields of source into
\* target; delete ref[field] removes the field from the object ref names.
ObjectAssign(heap, target, source) ==
    [heap EXCEPT ![target] =
        [f \in DOMAIN heap[target] \cup DOMAIN heap[source] |->
            IF f \in DOMAIN heap[source] THEN heap[source][f] ELSE heap[target][f]]]
DeleteField(heap, ref, field) ==
    [heap EXCEPT ![ref] = [f \in DOMAIN heap[ref] \ {field} |-> heap[ref][f]]]

\* The heap when removeMethods(data) begins: the caller's object, and const o = {}.
NewObject(data) == [ref \in {"data", "o"} |-> IF ref = "o" THEN EmptyData ELSE data]

\* Faulty variant: removeMethods that keeps the back reference.
removeMethodsKeepingAll(data) ==
    LET h == ObjectAssign(NewObject(data), "o", "data") IN
    [returned |-> h["o"], data |-> h["data"]]

\* Faulty variant: removeMethods that assigns the wrong way round, so the copy stays empty.
removeMethodsEmptyCopy(data) ==
    LET h == ObjectAssign(NewObject(data), "data", "o") IN
    [returned |-> h["o"], data |-> h["data"]]

\* Faulty variant: removeMethods that works on the caller's object (const o = data).
removeMethodsInPlace(data) ==
    LET h0 == NewObject(data)
        h1 == IF BackReference \in DOMAIN h0["data"]
              THEN DeleteField(h0, "data", BackReference)
              ELSE h0
    IN [returned |-> h1["data"], data |-> h1["data"]]

\* removeMethods: the object returned, a shallow copy of data's own fields without
\* the back reference, and the caller's object as the call leaves it.
removeMethods(data) ==
    LET h0 == NewObject(data)
        h1 == ObjectAssign(h0, "o", "data")
        h2 == IF BackReference \in DOMAIN h1["o"]
              THEN DeleteField(h1, "o", BackReference)
              ELSE h1
    IN [returned |-> h2["o"], data |-> h2["data"]]

\* Faulty variant: sendMessage without the contentWindow check.
sendMessageUnchecked(hasContentWindow, name, data) ==
    LET o == removeMethods(data) IN
    [posted |-> <<[name |-> name, args |-> o.returned]>>, raised |-> NoError,
     data |-> o.data]

\* Faulty variant: sendMessage that posts the envelope a second time.
sendMessagePostingTwice(hasContentWindow, name, data) ==
    IF ~hasContentWindow THEN [posted |-> <<>>, raised |-> NoContentWindow, data |-> data]
    ELSE LET o == removeMethods(data) IN
         [posted |-> <<[name |-> name, args |-> o.returned],
                       [name |-> name, args |-> o.returned]>>,
          raised |-> NoError, data |-> o.data]

\* sendMessage: the envelopes posted, the error thrown, and the caller's object as
\* the call leaves it.
sendMessage(hasContentWindow, name, data) ==
    IF ~hasContentWindow THEN [posted |-> <<>>, raised |-> NoContentWindow, data |-> data]
    ELSE LET o == removeMethods(data) IN
         [posted |-> <<[name |-> name, args |-> o.returned]>>, raised |-> NoError,
          data |-> o.data]

\* Faulty variant: render that never appends the iframe to the container.
renderWithoutAppend(children) == [iframe |-> "iframe", children |-> children]

\* render: the iframe created, and the children of the container after appendChild.
render(children) == [iframe |-> "iframe", children |-> Append(children, "iframe")]

\* Faulty variant: getNativeElement that returns the container.
getNativeElementContainer == container

\* getNativeElement: the iframe handle the instance owns.
getNativeElement == nativeElement

\* The dispatch method: executeCallbacks(key, event.data.args).
dispatch(cbs, count, method, data) ==
    executeCallbacks(cbs, count, DispatchKey(method),
                     IF "args" \in DOMAIN data THEN data.args ELSE Undefined)

\* Faulty variant: a listener whose switch falls through to dragStarted for an unknown name.
onMessageFallThrough(cbs, count, data) ==
    IF "name" \notin DOMAIN data THEN nothingInvoked(cbs, count)
    ELSE IF data.name \in KnownNames
         THEN dispatch(cbs, count, DispatchMethod(data.name[2]), data)
         ELSE dispatch(cbs, count, "dragStarted", data)

\* Faulty variant: a listener that does not guard the read of the name.
onMessageUnguarded(cbs, count, data) ==
    IF "name" \notin DOMAIN data
    THEN [invoked |-> <<>>, raised |-> "TypeError", cbs |-> cbs, count |-> count]
    ELSE IF data.name \in KnownNames
         THEN dispatch(cbs, count, DispatchMethod(data.name[2]), data)
         ELSE nothingInvoked(cbs, count)

\* The message listener EventHandler installs: a known name calls the dispatch
\* method of its kind, anything else is ignored.
onMessage(cbs, count, data) ==
    IF "name" \notin DOMAIN data THEN nothingInvoked(cbs, count)
    ELSE IF data.name \in KnownNames
         THEN dispatch(cbs, count, DispatchMethod(data.name[2]), data)
         ELSE nothingInvoked(cbs, count)

----------------------------------------------------------------------------
(* The state machine *)

EmptyRegistry == [k \in {} |-> <<>>]
NoRegistrations == [K \in ViewerEvent |-> <<>>]

\* The second instance before the host constructs it.
NoSecond ==
    [phase |-> "Absent", callbacks |-> EmptyRegistry, regOrder |-> NoRegistrations,
     invoked |-> <<>>, raised |-> NoError]

\* The second instance after a call that does not reach it.
SecondIdle == [second EXCEPT !.invoked = <<>>, !.raised = NoError]

Init ==
    /\ phase = "Constructing"
    /\ pc = "getContainer"
    /\ container = "null"
    /\ nativeElement = "null"
    /\ mounted = <<>>
    /\ receivers = 0
    /\ attached = TRUE
    /\ callbacks = EmptyRegistry
    /\ regCount = 0
    /\ regOrder = NoRegistrations
    /\ lastCall = [op |-> "none"]
    /\ invoked = <<>>
    /\ posted = <<>>
    /\ raised = NoError
    /\ outbox = <<>>
    /\ sendLog = <<>>
    /\ second = NoSecond

\* new VisualizationFrame(options), up to this.container = this.getContainer(options)
Construct(option) ==
    /\ phase = "Constructing"
    /\ pc = "getContainer"
    /\ LET c == getContainer(option) IN
       IF c.error # NoError
       THEN /\ phase' = "Failed"
            /\ pc' = "thrown"
            /\ raised' = c.error
            /\ UNCHANGED container
       ELSE /\ phase' = "Constructing"
            /\ pc' = "render"
            /\ raised' = NoError
            /\ container' = c.element
    /\ lastCall' = [op |-> "construct", option |-> option]
    /\ invoked' = <<>>
    /\ posted' = <<>>
    /\ UNCHANGED <<nativeElement, mounted, receivers, attached, callbacks, regCount, regOrder,
                   outbox, sendLog, second>>

\* The constructor goes on: this.nativeElement = this.render(options)
Render ==
    /\ phase = "Constructing"
    /\ pc = "render"
    /\ LET r == render(mounted) IN
       /\ nativeElement' = r.iframe
       /\ mounted' = r.children
    /\ pc' = "registerEventListeners"
    /\ UNCHANGED <<phase, container, receivers, attached, callbacks, regCount, regOrder,
                   lastCall, invoked, posted, raised, outbox, sendLog, second>>

\* The constructor ends: this.registerEventListeners(window), and the instance is ready
RegisterEventListeners ==
    /\ phase = "Constructing"
    /\ pc = "registerEventListeners"
    /\ receivers' = receivers + 1
    /\ pc' = "done"
    /\ phase' = "Active"
    /\ UNCHANGED <<container, nativeElement, mounted, attached, callbacks, regCount, regOrder,
                   lastCall, invoked, posted, raised, outbox, sendLog, second>>

\* visualization.on<K>(callback)
Register(K, callback) ==
    /\ phase = "Active"
    /\ regCount < MaxRegs
    /\ regCount' = regCount + 1
    /\ callbacks' = addCallback(callbacks, RegistrationKey(OnMethod(K)), callback)
    /\ regOrder' = [regOrder EXCEPT ![K] = Append(@, callback)]
    /\ lastCall' = [op |-> "register", kind |-> K, cb |-> callback]
    /\ invoked' = <<>>
    /\ posted' = <<>>
    /\ raised' = NoError
    /\ second' = SecondIdle
    /\ UNCHANGED <<phase, pc, container, nativeElement, mounted, receivers, attached,
                   outbox, sendLog>>

\* The registrations that n invocations of the registering callback make when
\* count registrations were made so far.
ReentrantRegistrations(n, count) ==
    LET left == MaxRegs + MaxReentrant - count IN
    [i \in 1..(IF n < left THEN n ELSE left) |-> ReentrantRegisters]

\* The windows a message event can come from (event.source): the iframe of the
\* first instance and the iframe of the second.
OwnSurface == "iframe1"
Surfaces == {OwnSurface, "iframe2"}

\* A message event from source arrives on window: every listener installed on window
\* runs, each on the registry of the instance that installed it, and what one
\* listener throws does not keep the next from running. The callbacks the host gives
\* the second instance do not register, so its listener leaves its registry alone.
DeliverFrom(source, data) ==
    /\ phase = "Active"
    /\ receivers > 0
    /\ \E r \in {onMessage(callbacks, regCount, data)},
          r2 \in {onMessage(second.callbacks, regCount, data)} :
          LET n == Cardinality({i \in DOMAIN r.invoked :
                                   r.invoked[i].cb = ReentrantCallback})
          IN \E made \in {ReentrantRegistrations(n, regCount)} :
                /\ invoked' = r.invoked
                /\ raised' = r.raised
                /\ callbacks' = r.cbs
                /\ regCount' = regCount + Len(made)
                /\ regOrder' = [regOrder EXCEPT ![ReentrantKind] = @ \o made]
                /\ second' = IF second.phase = "Active"
                             THEN [second EXCEPT !.invoked = r2.invoked,
                                                 !.raised = r2.raised]
                             ELSE SecondIdle
    /\ lastCall' = [op |-> "deliver", data |-> data, source |-> source]
    /\ posted' = <<>>
    /\ UNCHANGED <<phase, pc, container, nativeElement, mounted, receivers, attached,
                   outbox, sendLog>>

\* A message event posted by the instance's own iframe arrives on window.
Deliver(data) == DeliverFrom(OwnSurface, data)

\* nativeElement.contentWindow is non-null iff the iframe is in a live document.
HasContentWindow == nativeElement # "null" /\ attached

\* A send method: this.sendMessage(name, data), without the history of sends.
Send(op, name, data) ==
    /\ phase = "Active"
    /\ LET r == sendMessage(HasContentWindow, name, data) IN
       /\ posted' = r.posted
       /\ raised' = r.raised
       /\ lastCall' = [op |-> op, data |-> data, after |-> r.data]
    /\ invoked' = <<>>
    /\ second' = SecondIdle
    /\ UNCHANGED <<phase, pc, container, nativeElement, mounted, receivers, attached,
                   callbacks, regCount, regOrder>>

\* visualization.sendConfigurationUpdated(configuration)
SendConfigurationUpdated(configuration) ==
    /\ Send("sendConfigurationUpdated", "elfsquad.configurationUpdated", configuration)
    /\ UNCHANGED <<outbox, sendLog>>

\* visualization.sendStepChanged(step)
SendStepChanged(step) ==
    /\ Send("sendStepChanged", "elfsquad.stepChanged", step)
    /\ UNCHANGED <<outbox, sendLog>>

\* The host page takes the container out of the document, or puts it back.
ToggleAttached ==
    /\ phase = "Active"
    /\ attached' = ~attached
    /\ lastCall' = [op |-> "toggleAttached"]
    /\ invoked' = <<>>
    /\ posted' = <<>>
    /\ raised' = NoError
    /\ second' = SecondIdle
    /\ UNCHANGED <<phase, pc, container, nativeElement, mounted, receivers,
                   callbacks, regCount, regOrder, outbox, sendLog>>

Next ==
    \/ \E option \in ContainerOptions : Construct(option)
    \/ Render
    \/ RegisterEventListeners
    \/ \E K \in ViewerEvent, callback \in CallbackIds : Register(K, callback)
    \/ \E data \in InboundData : Deliver(data)
    \/ \E configuration \in Payloads : SendConfigurationUpdated(configuration)
    \/ \E step \in Payloads : SendStepChanged(step)
    \/ ToggleAttached

Spec == Init /\ [][Next]_vars

\* Registration and dispatch alone, with a host that also registers the callback
\* that registers.
ReentrantHostCallbacks == {"c1", "cThrow", ReentrantCallback}

NextReentrant ==
    \/ \E option \in ContainerOptions : Construct(option)
    \/ Render
    \/ RegisterEventListeners
    \/ \E K \in ViewerEvent, callback \in ReentrantHostCallbacks : Register(K, callback)
    \/ \E data \in InboundData : Deliver(data)

SpecReentrant == Init /\ [][NextReentrant]_vars

\* The send methods, with the history of the first MaxSends send calls: what
\* contentWindow received, and each call with the state of the channel it met.
LoggedSend(op, name, data) ==
    /\ Len(sendLog) < MaxSends
    /\ Send(op, name, data)
    /\ outbox' = outbox \o posted'
    /\ sendLog' = Append(sendLog, [op |-> op, data |-> data, channel |-> HasContentWindow])

LoggedSendConfigurationUpdated(configuration) ==
    LoggedSend("sendConfigurationUpdated", "elfsquad.configurationUpdated", configuration)

LoggedSendStepChanged(step) ==
    LoggedSend("sendStepChanged", "elfsquad.stepChanged", step)

\* Construction and sends alone, on a channel that comes and goes.
NextSends ==
    \/ \E option \in ContainerOptions : Construct(option)
    \/ Render
    \/ RegisterEventListeners
    \/ \E configuration \in Payloads : LoggedSendConfigurationUpdated(configuration)
    \/ \E step \in Payloads : LoggedSendStepChanged(step)
    \/ ToggleAttached

SpecSends == Init /\ [][NextSends]_vars

\* new VisualizationFrame(options) a second time, on a container of the same
\* document: the whole constructor, which installs a listener of its own.
ConstructSecond ==
    /\ phase = "Active"
    /\ second.phase = "Absent"
    /\ mounted' = render(mounted).children
    /\ receivers' = receivers + 1
    /\ second' = [SecondIdle EXCEPT !.phase = "Active"]
    /\ lastCall' = [op |-> "constructSecond"]
    /\ invoked' = <<>>
    /\ posted' = <<>>
    /\ raised' = NoError
    /\ UNCHANGED <<phase, pc, container, nativeElement, attached, callbacks, regCount,
                   regOrder, outbox, sendLog>>

\* Faulty variant: on<K>(callback) of the second instance writing into a registry
\* that the instances share.
RegisterSecondShared(K, callback) ==
    /\ second.phase = "Active"
    /\ regCount < MaxRegs
    /\ regCount' = regCount + 1
    /\ callbacks' = addCallback(callbacks, RegistrationKey(OnMethod(K)), callback)
    /\ second' = [SecondIdle EXCEPT
                     !.callbacks = addCallback(@, RegistrationKey(OnMethod(K)), callback),
                     !.regOrder[K] = Append(@, callback)]
    /\ lastCall' = [op |-> "registerSecond", kind |-> K, cb |-> callback]
    /\ invoked' = <<>>
    /\ posted' = <<>>
    /\ raised' = NoError
    /\ UNCHANGED <<phase, pc, container, nativeElement, mounted, receivers, attached,
                   regOrder, outbox, sendLog>>

\* on<K>(callback) of the second instance
RegisterSecond(K, callback) ==
    /\ second.phase = "Active"
    /\ regCount < MaxRegs
    /\ regCount' = regCount + 1
    /\ second' = [SecondIdle EXCEPT
                     !.callbacks = addCallback(@, RegistrationKey(OnMethod(K)), callback),
                     !.regOrder[K] = Append(@, callback)]
    /\ lastCall' = [op |-> "registerSecond", kind |-> K, cb |-> callback]
    /\ invoked' = <<>>
    /\ posted' = <<>>
    /\ raised' = NoError
    /\ UNCHANGED <<phase, pc, container, nativeElement, mounted, receivers, attached,
                   callbacks, regOrder, outbox, sendLog>>

\* Two instances on one window: the kinds and callbacks the host registers, and
\* the messages that arrive.
TwoKinds == {"UpdateRequirement", "DragStarted"}
TwoCallbacks == {"c1", "cThrow"}
TwoInbound ==
    [name : {WireName(K) : K \in TwoKinds} \cup UnknownNames, args : {"p1"}]
    \cup [args : {"p1"}]

NextTwo ==
    \/ \E option \in ContainerOptions : Construct(option)
    \/ Render
    \/ RegisterEventListeners
    \/ ConstructSecond
    \/ \E K \in TwoKinds, callback \in TwoCallbacks : Register(K, callback)
    \/ \E K \in TwoKinds, callback \in TwoCallbacks : RegisterSecond(K, callback)
    \/ \E source \in Surfaces, data \in TwoInbound : DeliverFrom(source, data)

SpecTwo == Init /\ [][NextTwo]_vars

----------------------------------------------------------------------------
(* What the last call was *)

Bucket(cbs, K) == IF K \in DOMAIN cbs THEN cbs[K] ELSE <<>>

\* The last call delivered an inbound message whose name is the wire name of K.
DeliveredKind(K) ==
    /\ lastCall.op = "deliver"
    /\ "name" \in DOMAIN lastCall.data
    /\ lastCall.data.name = WireName(K)

\* The payload of the message the last call delivered.
DeliveredArgs ==
    IF "args" \in DOMAIN lastCall.data THEN lastCall.data.args ELSE Undefined

\* How often c occurs in a sequence of callbacks, and how often it was invoked.
Occurrences(c, seq) == Cardinality({i \in DOMAIN seq : seq[i] = c})
Invocations(c) == Cardinality({i \in DOMAIN invoked : invoked[i].cb = c})
InvokedCallbacks == [i \in DOMAIN invoked |-> invoked[i].cb]

\* Every invocation of the last call received the delivered payload.
AllReceived(c, P) == \A i \in DOMAIN invoked : invoked[i].cb = c => invoked[i].arg = P

\* No callback at a position before i of seq throws.
NoneRaisesBefore(seq, i) == \A j \in 1..(i - 1) : ~Raises(seq[j])

\* The positions of c in seq.
Positions(c, seq) == {i \in DOMAIN seq : seq[i] = c}

----------------------------------------------------------------------------
(* C1 *)

----------------------------------------------------------------------------
(* C2 *)

----------------------------------------------------------------------------
(* C3 *)

\* The callbacks of seq up to and including the first one that throws.
RECURSIVE UpToFirstRaise(_)
UpToFirstRaise(seq) ==
    IF seq = <<>> THEN <<>>
    ELSE IF Raises(Head(seq)) THEN <<Head(seq)>>
         ELSE <<Head(seq)>> \o UpToFirstRaise(Tail(seq))

----------------------------------------------------------------------------
(* C4 *)

\* The last call delivered an inbound message that has a name, and the name is not
\* the wire name of any kind.
DeliveredUnknownName ==
    /\ lastCall.op = "deliver"
    /\ "name" \in DOMAIN lastCall.data
    /\ \A K \in ViewerEvent : lastCall.data.name # WireName(K)

\* C4: delivering an inbound message whose name maps to no kind invokes no callback,
\* throws nothing and leaves the registry as it was.
C4_UnknownNameIgnored ==
    [][DeliveredUnknownName' =>
          (invoked' = <<>> /\ raised' = NoError /\ callbacks' = callbacks)]_vars

C4_Witness ==
    /\ DeliveredUnknownName
    /\ callbacks # EmptyRegistry
    /\ invoked = <<>>
    /\ raised = NoError

----------------------------------------------------------------------------
(* C5 *)

ChannelAvailable == attached

\* C5: with the channel available, sendConfigurationUpdated(cfg) posts exactly one
\* envelope, named 'elfsquad.configurationUpdated', whose args has the fields of cfg
\* other than the back reference, each with the value it has in cfg.
C5_ConfigurationUpdated ==
    (lastCall.op = "sendConfigurationUpdated" /\ ChannelAvailable)
        => /\ raised = NoError
           /\ Len(posted) = 1
           /\ posted[1].name = "elfsquad.configurationUpdated"
           /\ DOMAIN posted[1].args = DOMAIN lastCall.data \ {BackReference}
           /\ \A f \in DOMAIN posted[1].args : posted[1].args[f] = lastCall.data[f]

\* A configuration with the back reference and another field has been sent.
C5_Witness ==
    /\ lastCall.op = "sendConfigurationUpdated"
    /\ ChannelAvailable
    /\ DOMAIN lastCall.data = {"id", BackReference}
    /\ posted = <<[name |-> "elfsquad.configurationUpdated", args |-> [id |-> "a"]]>>

----------------------------------------------------------------------------
(* C6 *)

\* C6 as stated: with the channel available, sendStepChanged(step) posts an envelope
\* named 'elfsquad.stepChanged' whose args has the fields and the values of step.
C6_AsStated ==
    (lastCall.op = "sendStepChanged" /\ ChannelAvailable)
        => /\ Len(posted) = 1
           /\ posted[1].name = "elfsquad.stepChanged"
           /\ DOMAIN posted[1].args = DOMAIN lastCall.data
           /\ \A f \in DOMAIN lastCall.data : posted[1].args[f] = lastCall.data[f]

\* C6, amended: with the channel available, sendStepChanged(step) posts an envelope
\* named 'elfsquad.stepChanged' whose args has the fields and the values of step,
\* except the back reference, which is removed from a step that holds it.
C6_StepChanged ==
    (lastCall.op = "sendStepChanged" /\ ChannelAvailable)
        => /\ raised = NoError
           /\ Len(posted) = 1
           /\ posted[1].name = "elfsquad.stepChanged"
           /\ DOMAIN posted[1].args = DOMAIN lastCall.data \ {BackReference}
           /\ \A f \in DOMAIN posted[1].args : posted[1].args[f] = lastCall.data[f]

\* A step without the back reference has been sent, and arrived as it was.
C6_Witness ==
    /\ lastCall.op = "sendStepChanged"
    /\ ChannelAvailable
    /\ lastCall.data = [id |-> "b"]
    /\ posted = <<[name |-> "elfsquad.stepChanged", args |-> [id |-> "b"]]>>

----------------------------------------------------------------------------
(* C7 *)

SendOps == {"sendConfigurationUpdated", "sendStepChanged"}

\* C7: a send made while the channel is unavailable throws the no-channel error,
\* posts nothing and leaves the registry as it was.
C7_NoChannel ==
    [][(lastCall'.op \in SendOps /\ ~ChannelAvailable)
          => (raised' = NoContentWindow /\ posted' = <<>> /\ callbacks' = callbacks)]_vars

C7_Witness ==
    /\ lastCall.op \in SendOps
    /\ ~ChannelAvailable
    /\ raised = NoContentWindow
    /\ callbacks # EmptyRegistry

----------------------------------------------------------------------------
(* C8 *)

ContainerResolutionError == {ContainerNotFound, ContainerNotHTMLElement}

\* The selectors of the document that match nothing, and those that match an
\* element that is no HTMLElement.
MatchesNothing == {"#missing"}
MatchesNonHTMLElement == {"#svg"}

\* C8: constructing with a selector that matches no element, or a node that is no
\* mountable element, fails with a container resolution error, and no instance
\* becomes active.
C8_ContainerResolution ==
    (/\ lastCall.op = "construct"
     /\ lastCall.option.type = "string"
     /\ lastCall.option.value \in MatchesNothing \cup MatchesNonHTMLElement)
        => (phase = "Failed" /\ raised \in ContainerResolutionError)

C8_Witness ==
    /\ lastCall.op = "construct"
    /\ lastCall.option = [type |-> "string", value |-> "#svg"]
    /\ phase = "Failed"
    /\ raised = ContainerNotHTMLElement

----------------------------------------------------------------------------
(* C9 *)

\* C9: an inbound envelope without a name invokes no callback and no error escapes
\* the listener.
C9_MissingName ==
    (lastCall.op = "deliver" /\ "name" \notin DOMAIN lastCall.data)
        => (invoked = <<>> /\ raised = NoError)

C9_Witness ==
    /\ lastCall.op = "deliver"
    /\ lastCall.data = [args |-> "p1"]
    /\ callbacks # EmptyRegistry
    /\ invoked = <<>>
    /\ raised = NoError

----------------------------------------------------------------------------
(* C10 *)

IsPrefix(s, t) == Len(s) <= Len(t) /\ \A i \in DOMAIN s : s[i] = t[i]

\* C10: there is no cancellation. No step removes or reorders an entry of a bucket,
\* whatever the call and whether or not it throws, and a dispatch of K invokes every
\* callback ever registered for K that no throwing callback precedes.
C10_NoCancellation ==
    [][/\ \A K \in ViewerEvent : IsPrefix(Bucket(callbacks, K), Bucket(callbacks', K))
       /\ \A K \in ViewerEvent : IsPrefix(regOrder[K], Bucket(callbacks', K))
       /\ \A K \in ViewerEvent :
             DeliveredKind(K)' =>
                 \A i \in DOMAIN regOrder[K] :
                     NoneRaisesBefore(regOrder[K], i)
                         => (i \in DOMAIN invoked' /\ invoked'[i].cb = regOrder[K][i])]_vars

\* A callback registered before a throwing dispatch and a failed send is invoked by
\* a later dispatch.
C10_Witness ==
    /\ DeliveredKind("DragStarted")
    /\ regOrder["DragStarted"] = <<"c1", "cThrow">>
    /\ InvokedCallbacks = <<"c1", "cThrow">>
    /\ raised = CallbackError
    /\ ~ChannelAvailable

----------------------------------------------------------------------------
(* C11 *)

\* C11: the iframe handle and the container are fixed at construction. In every
\* state of an active instance getNativeElement returns the iframe that the
\* constructor mounted, and no call changes the handle or the container.
C11_HandleFixed ==
    [][phase = "Active" =>
          /\ getNativeElement = Head(mounted)
          /\ getNativeElement' = getNativeElement
          /\ nativeElement' = nativeElement
          /\ container' = container]_vars

\* After registrations and a send, the handle is the iframe mounted at construction.
C11_Witness ==
    /\ phase = "Active"
    /\ regCount = MaxRegs
    /\ lastCall.op = "sendStepChanged"
    /\ getNativeElement = "iframe"
    /\ container = "divElement"

----------------------------------------------------------------------------
(* C16 *)

\* What construction has done, in each state.
ConstructionState ==
    \* resolve the container, then mount the surface, then install the receiver
    /\ receivers > 0 => mounted # <<>>
    /\ mounted # <<>> => container # "null"
    \* a successful construction: one surface in the container, one receiver
    /\ phase = "Active" =>
          (/\ IsHTMLElement(container)
           /\ mounted = <<nativeElement>>
           /\ nativeElement # "null"
           /\ receivers = 1)
    \* a failed construction: no surface, no receiver
    /\ phase = "Failed" =>
          (/\ raised \in ContainerResolutionError
           /\ mounted = <<>>
           /\ nativeElement = "null"
           /\ receivers = 0)
    \* nothing is registered, dispatched or sent before the instance is active
    /\ phase # "Active" =>
          (/\ lastCall.op \in {"none", "construct"}
           /\ invoked = <<>>
           /\ posted = <<>>
           /\ callbacks = EmptyRegistry)

\* C16: construction goes one way, from Constructing to Active, in the order resolve
\* container, mount surface, install receiver. A successful construction mounts one
\* surface and installs one receiver, nothing is dispatched before the instance is
\* active, an active instance stays active, and a construction that fails on the
\* container mounts nothing and installs nothing.
C16_Construction ==
    [][/\ ConstructionState
       /\ ConstructionState'
       /\ phase = "Active" => phase' = "Active"
       /\ phase # phase' => phase = "Constructing"]_vars

C16_Witness ==
    /\ phase = "Active"
    /\ pc = "done"
    /\ mounted = <<"iframe">>
    /\ receivers = 1
    /\ DeliveredKind("UpdateImageValue")
    /\ invoked # <<>>

----------------------------------------------------------------------------
(* C12 *)

\* The registrations for K that the step made, from the history of registrations.
Made(K) == SubSeq(regOrder'[K], Len(regOrder[K]) + 1, Len(regOrder'[K]))

\* The step is a call of on<K>(c): it appends c to the bucket of K and leaves every
\* other bucket as it was, absent ones absent.
RegistrationAppendsToOneBucket ==
    lastCall'.op = "register" =>
        /\ Bucket(callbacks', lastCall'.kind)
              = Append(Bucket(callbacks, lastCall'.kind), lastCall'.cb)
        /\ \A K \in ViewerEvent \ {lastCall'.kind} :
              /\ K \in DOMAIN callbacks' <=> K \in DOMAIN callbacks
              /\ Bucket(callbacks', K) = Bucket(callbacks, K)

\* C12 as stated: a registration appends to exactly one bucket, and a dispatch leaves
\* every bucket as it was.
C12_AsStated ==
    [][/\ RegistrationAppendsToOneBucket
       /\ lastCall'.op = "deliver" => callbacks' = callbacks]_vars

\* C12, amended: a registration appends its callback to exactly one bucket, that of
\* its kind, and leaves every other bucket unchanged; a dispatch changes no bucket
\* itself, also when the bucket it reads does not exist: after it, each bucket is
\* what it was, followed by the callbacks that the invoked callbacks registered.
C12_FrameOfRegistry ==
    [][/\ RegistrationAppendsToOneBucket
       /\ lastCall'.op = "deliver" =>
             /\ \A K \in ViewerEvent :
                   /\ Bucket(callbacks', K) = Bucket(callbacks, K) \o Made(K)
                   /\ K \in DOMAIN callbacks' <=> (K \in DOMAIN callbacks \/ Made(K) # <<>>)
             /\ (\A i \in DOMAIN invoked' : invoked'[i].cb # ReentrantCallback)
                   => callbacks' = callbacks]_vars

\* A dispatch of a kind that has no bucket, on a registry with another bucket.
C12_Witness ==
    /\ DeliveredKind("UpdateRequirements")
    /\ DOMAIN callbacks = {"UpdateRequirement"}
    /\ callbacks["UpdateRequirement"] = <<"c1", "cThrow">>

----------------------------------------------------------------------------
(* C13 *)

\* C13: dispatch is isolated per kind, for each of the eight kinds. A message of kind
\* K invokes only callbacks registered for K (as many times, at most, as they were
\* registered for K), never one registered for another kind only, and a message of a
\* kind without registrations invokes nothing and throws nothing.
C13_IsolatedPerKind ==
    \A K \in ViewerEvent :
        DeliveredKind(K) =>
            /\ \A c \in CallbackIds : Invocations(c) <= Occurrences(c, regOrder[K])
            /\ regOrder[K] = <<>> => (invoked = <<>> /\ raised = NoError)
            /\ regOrder[K] # <<>> => invoked # <<>>

\* A message of a kind without registrations, while another kind has two.
C13_Witness ==
    /\ DeliveredKind("DragStarted")
    /\ regOrder["DragStarted"] = <<>>
    /\ regOrder["RemoveLinkedConfiguration"] = <<"c1", "cThrow">>
    /\ invoked = <<>>
    /\ raised = NoError

----------------------------------------------------------------------------
(* C14 *)

\* The position of the first callback of seq that throws; 0 when none does.
FirstRaiser(seq) ==
    IF \E i \in DOMAIN seq : Raises(seq[i])
    THEN CHOOSE i \in DOMAIN seq : Raises(seq[i]) /\ NoneRaisesBefore(seq, i)
    ELSE 0

\* The step is a dispatch of K in which the callback at position i throws: the
\* callbacks up to i have been invoked once each, in order, the later ones not at
\* all, and the error has left the dispatch.
RaisingDispatch(K) ==
    (DeliveredKind(K)' /\ FirstRaiser(regOrder[K]) > 0) =>
        /\ InvokedCallbacks' = SubSeq(regOrder[K], 1, FirstRaiser(regOrder[K]))
        /\ raised' = CallbackError

\* C14 as stated: callbacks are invoked unguarded, and the registry after a dispatch
\* that throws is the registry before it.
C14_AsStated ==
    [][\A K \in ViewerEvent :
          /\ RaisingDispatch(K)
          /\ (DeliveredKind(K)' /\ FirstRaiser(regOrder[K]) > 0)
                => callbacks' = callbacks]_vars

\* C14, amended: callbacks are invoked unguarded. When the i-th callback of K's
\* bucket throws, the callbacks before it have been invoked once each, the ones after
\* it are not invoked, the error leaves the dispatch, and the dispatch removes
\* nothing from the registry: each bucket is what it was, followed by what the
\* invoked callbacks registered, so a later dispatch starts from the first callback.
C14_Unguarded ==
    [][\A K \in ViewerEvent :
          /\ RaisingDispatch(K)
          /\ (DeliveredKind(K)' /\ FirstRaiser(regOrder[K]) > 0)
                => \A K2 \in ViewerEvent :
                      Bucket(callbacks', K2) = Bucket(callbacks, K2) \o Made(K2)]_vars

\* The first callback throws and the second is not invoked.
C14_Witness ==
    /\ DeliveredKind("UpdateRequirement")
    /\ regOrder["UpdateRequirement"] = <<"cThrow", "c1">>
    /\ callbacks["UpdateRequirement"] = <<"cThrow", "c1">>
    /\ InvokedCallbacks = <<"cThrow">>
    /\ raised = CallbackError

----------------------------------------------------------------------------
(* C17 *)

----------------------------------------------------------------------------
(* C15 *)

\* The name a send method puts in its envelope.
EnvelopeName(op) ==
    IF op = "sendConfigurationUpdated"
    THEN "elfsquad.configurationUpdated"
    ELSE "elfsquad.stepChanged"

\* The envelope of a send call: its name, and its payload without the back reference.
EnvelopeOf(call) ==
    [name |-> EnvelopeName(call.op),
     args |-> [f \in DOMAIN call.data \ {BackReference} |-> call.data[f]]]

\* The envelopes of the calls of log that met an available channel, in call order.
RECURSIVE EnvelopesOfSuccessful(_)
EnvelopesOfSuccessful(log) ==
    IF log = <<>> THEN <<>>
    ELSE EnvelopesOfSuccessful(SubSeq(log, 1, Len(log) - 1))
            \o (IF log[Len(log)].channel THEN <<EnvelopeOf(log[Len(log)])>> ELSE <<>>)

\* C15: sends are fire-and-forget. The envelopes contentWindow received are the
\* envelopes of the send calls that met an available channel, one for each, in call
\* order: a call that failed is not posted later, and the call after a failed one
\* succeeds when the channel is available: it posts its own envelope and throws nothing.
C15_FireAndForget ==
    /\ outbox = EnvelopesOfSuccessful(sendLog)
    /\ (lastCall.op \in SendOps /\ sendLog # <<>>) =>
          LET call == sendLog[Len(sendLog)] IN
          /\ call.op = lastCall.op /\ call.data = lastCall.data
          /\ call.channel => (raised = NoError /\ posted = <<EnvelopeOf(call)>>)
          /\ ~call.channel => (raised = NoContentWindow /\ posted = <<>>)

\* A send that failed, and after it the same send succeeding: contentWindow has
\* received one envelope, that of the second call.
C15_Witness ==
    /\ Len(sendLog) = 2
    /\ ~sendLog[1].channel
    /\ sendLog[2].channel
    /\ sendLog[1].op = sendLog[2].op
    /\ sendLog[1].data = sendLog[2].data
    /\ lastCall.op \in SendOps
    /\ raised = NoError
    /\ outbox = <<EnvelopeOf(sendLog[2])>>

----------------------------------------------------------------------------
(* C18 *)

\* C18: sanitization works on a shallow copy. After a send the caller's object is
\* what it was before the call, back reference included, and sanitizing the payload
\* that was posted gives an equal payload.
C18_ShallowCopy ==
    lastCall.op \in SendOps =>
        /\ lastCall.after = lastCall.data
        /\ posted # <<>> => removeMethods(posted[1].args).returned = posted[1].args

\* A configuration with the back reference was sent: the envelope does not hold the
\* field, the caller's object still does.
C18_Witness ==
    /\ lastCall.op = "sendConfigurationUpdated"
    /\ lastCall.data = [id |-> "a", _configuratorContext |-> "ctx"]
    /\ posted # <<>>
    /\ posted[1].args = [id |-> "a"]
    /\ BackReference \in DOMAIN lastCall.after

----------------------------------------------------------------------------
(* C19 *)

\* The callbacks the listener of the second instance invoked in the last call.
SecondInvokedCallbacks == [i \in DOMAIN second.invoked |-> second.invoked[i].cb]

\* C19: two instances on one window. A registration on one instance leaves the
\* registry of the other as it was, and a message with the name of kind K, from
\* whichever surface it comes, is dispatched by the listener of each instance to the
\* callbacks registered for K on that instance.
C19_TwoInstances ==
    [][/\ lastCall'.op = "register" => second'.callbacks = second.callbacks
       /\ lastCall'.op = "registerSecond" =>
             /\ callbacks' = callbacks
             /\ second'.callbacks
                   = [k \in DOMAIN second.callbacks \cup {lastCall'.kind} |->
                         IF k = lastCall'.kind
                         THEN Append(Bucket(second.callbacks, k), lastCall'.cb)
                         ELSE second.callbacks[k]]
       /\ \A K \in ViewerEvent :
             (DeliveredKind(K)' /\ second.phase = "Active") =>
                 /\ InvokedCallbacks' = UpToFirstRaise(regOrder[K])
                 /\ SecondInvokedCallbacks' = UpToFirstRaise(second.regOrder[K])
                 /\ \A i \in DOMAIN second'.invoked :
                       second'.invoked[i].arg = DeliveredArgs'
                 /\ second'.raised = (IF \E i \in DOMAIN second.regOrder[K] :
                                            Raises(second.regOrder[K][i])
                                      THEN CallbackError ELSE NoError)]_vars

\* One message from the surface of the second instance, dispatched by both
\* listeners: the first instance invoked its callback, which threw, and the second
\* instance invoked its own.
C19_Witness ==
    /\ DeliveredKind("DragStarted")
    /\ lastCall.source = "iframe2"
    /\ second.phase = "Active"
    /\ receivers = 2
    /\ callbacks = [DragStarted |-> <<"cThrow">>]
    /\ second.callbacks = [DragStarted |-> <<"c1">>]
    /\ InvokedCallbacks = <<"cThrow">>
    /\ raised = CallbackError
    /\ SecondInvokedCallbacks = <<"c1">>
    /\ second.raised = NoError

====
